---------------------------- MODULE Spec2Model ----------------------------
(***************************************************************************)
(* A model of the quadtree of src/src/backend/mod.rs (AABB, QTree and its  *)
(* iterator), of the Updater of src/src/backend/updater.rs and of GUI::run *)
(* of src/src/gui/mod.rs.  A tree is a record                              *)
(*   [boundary |-> AABB, points |-> Option, children |-> Option]           *)
(* an Option being the empty sequence (None) or a one-element sequence     *)
(* (Some(x)).  Array indices are those of the source (0..3); the tuples    *)
(* that hold the arrays are indexed from 1, so index i is element i + 1.   *)
(***************************************************************************)
EXTENDS Integers, Sequences, FiniteSets, TLC

VARIABLES tree, expected, op, calls, overflow_checks,
          heap, updater, gui, channel, log,
          iterator, yielded

vars == <<tree, expected, op, calls, overflow_checks,
          heap, updater, gui, channel, log,
          iterator, yielded>>

\* The tree under test and what the tests keep beside it; `overflow_checks`
\* is the build's setting of that name (on in cargo's dev and test profiles,
\* off in its release profile).
tree_vars == <<tree, expected, op, calls, overflow_checks>>

\* The Updater thread, the GUI thread, the channel between them and the
\* Arc<QTree> allocations they share.
pub_vars == <<heap, updater, gui, channel, log>>

\* A QTreeIter a caller holds on `tree` and what `next` has returned since
\* `into_iter` made it.
iter_vars == <<iterator, yielded>>

-----------------------------------------------------------------------------
(* Option<T> *)

None == <<>>

Some(x) == <<x>>

IsSome(o) == o # <<>>

Unwrap(o) == o[1]

-----------------------------------------------------------------------------
(* i32: `a + b` and `a - b` wrap around without overflow checks and panic   *)
(* with them.                                                               *)

MaxI32 == 2147483647

MinI32 == -2147483647 - 1

add_overflows(a, b) ==
    \/ (b > 0 /\ a > MaxI32 - b)
    \/ (b < 0 /\ a < MinI32 - b)

sub_overflows(a, b) ==
    \/ (b > 0 /\ a < MinI32 + b)
    \/ (b < 0 /\ a > MaxI32 + b)

wrapping_add(a, b) ==
    IF b > 0 /\ a > MaxI32 - b
    THEN MinI32 + ((a - (MaxI32 - b)) - 1)
    ELSE IF b < 0 /\ a < MinI32 - b
         THEN MaxI32 - (((MinI32 - b) - a) - 1)
         ELSE a + b

wrapping_sub(a, b) ==
    IF b > 0 /\ a < MinI32 + b
    THEN MaxI32 - (((MinI32 + b) - a) - 1)
    ELSE IF b < 0 /\ a > MaxI32 + b
         THEN MinI32 + ((a - (MaxI32 + b)) - 1)
         ELSE a - b

-----------------------------------------------------------------------------
(* AABB *)

AABB_new(center, half_dim) == [center |-> center, half_dim |-> half_dim]

AABB_contains(self, point) ==
    LET centered == <<wrapping_sub(point[1], self.center[1]),
                      wrapping_sub(point[2], self.center[2])>>
    IN  /\ -self.half_dim <= centered[1]
        /\ centered[1] < self.half_dim
        /\ -self.half_dim <= centered[2]
        /\ centered[2] < self.half_dim

intersects_range(a, b) ==
    \/ (a[1] <= b[1] /\ a[2] > b[1])
    \/ (b[1] <= a[1] /\ b[2] > a[1])

x_range(self) ==
    <<wrapping_sub(self.center[1], self.half_dim),
      wrapping_add(self.center[1], self.half_dim)>>

y_range(self) ==
    <<wrapping_sub(self.center[2], self.half_dim),
      wrapping_add(self.center[2], self.half_dim)>>

AABB_intersects(self, other) ==
    /\ intersects_range(x_range(self), x_range(other))
    /\ intersects_range(y_range(self), y_range(other))

-----------------------------------------------------------------------------
(* QTree *)

QTREE_CAP == 4

\* The tree `QTree::new` starts from, before it sets the initial elements.
EmptyLeaf(boundary) ==
    [boundary |-> boundary,
     points   |-> Some(<<None, None, None, None>>),
     children |-> None]

\* The panic of `invalid_state`: the tree is left as the panic found it.
invalid_state(self) == self

get_child(boundary, point) ==
    IF point[2] >= boundary.center[2]
    THEN IF point[1] >= boundary.center[1] THEN 0 ELSE 1
    ELSE IF point[1] >= boundary.center[1] THEN 2 ELSE 3

new_bbs(old) ==
    LET half_dim == old.half_dim \div 2
        east  == wrapping_add(old.center[1], half_dim)
        west  == wrapping_sub(old.center[1], half_dim)
        north == wrapping_add(old.center[2], half_dim)
        south == wrapping_sub(old.center[2], half_dim)
    IN  << AABB_new(<<east, north>>, half_dim),
           AABB_new(<<west, north>>, half_dim),
           AABB_new(<<east, south>>, half_dim),
           AABB_new(<<west, south>>, half_dim) >>


-----------------------------------------------------------------------------
(* QTreeIter: [tree, index, child_iterator]; `next` gives the item and the  *)
(* iterator as the call leaves it.                                          *)

into_iter(self) == [tree |-> self, index |-> 0, child_iterator |-> None]

\* `for p in &points[self.index..]` of a Leaf.
RECURSIVE leaf_scan(_, _)
leaf_scan(it, points) ==
    IF it.index >= 4
    THEN [item |-> None, it |-> it]
    ELSE LET p   == points[it.index + 1]
             it2 == [it EXCEPT !.index = @ + 1]
         IN  IF IsSome(p) THEN [item |-> p, it |-> it2]
                          ELSE leaf_scan(it2, points)

RECURSIVE QTreeIter_next(_), child_scan(_, _)

\* A `while` loop that reads the children west first: NW, NE, SW, SE.
child_scan_west_first(it, children) ==
    IF it.index < 4
    THEN LET west == << 2, 1, 4, 3 >>
             r    == QTreeIter_next(into_iter(children[west[it.index + 1]]))
         IN  IF IsSome(r.item)
             THEN [item |-> r.item,
                   it   |-> [it EXCEPT !.child_iterator = Some(r.it)]]
             ELSE child_scan([it EXCEPT !.child_iterator = Some(r.it),
                                        !.index = @ + 1], children)
    ELSE [item |-> None, it |-> it]

\* `while self.index < 4` of an Internal node.
child_scan(it, children) ==
    IF it.index < 4
    THEN LET r == QTreeIter_next(into_iter(children[it.index + 1]))
         IN  IF IsSome(r.item)
             THEN [item |-> r.item,
                   it   |-> [it EXCEPT !.child_iterator = Some(r.it)]]
             ELSE child_scan([it EXCEPT !.child_iterator = Some(r.it),
                                        !.index = @ + 1], children)
    ELSE [item |-> None, it |-> it]

QTreeIter_next(self) ==
    LET r  == IF IsSome(self.child_iterator)
              THEN QTreeIter_next(Unwrap(self.child_iterator))
              ELSE [item |-> None, it |-> self]
        s  == IF IsSome(self.child_iterator)
              THEN IF IsSome(r.item)
                   THEN [self EXCEPT !.child_iterator = Some(r.it)]
                   ELSE [self EXCEPT !.child_iterator = Some(r.it),
                                     !.index = @ + 1]
              ELSE self
    IN  IF IsSome(self.child_iterator) /\ IsSome(r.item)
        THEN [item |-> r.item, it |-> s]
        ELSE IF s.index = 4
             THEN [item |-> None, it |-> s]
             ELSE IF IsSome(s.tree.points)
                  THEN leaf_scan(s, Unwrap(s.tree.points))
                  ELSE IF IsSome(s.tree.children)
                       THEN child_scan(s, Unwrap(s.tree.children))
                       ELSE [item |-> None, it |-> s]

\* `.collect()` of an iterator: `next` until it gives None.
RECURSIVE collect(_)
collect(it) ==
    LET r == QTreeIter_next(it)
    IN  IF IsSome(r.item) THEN <<Unwrap(r.item)>> \o collect(r.it) ELSE <<>>

-----------------------------------------------------------------------------
(* QTree::set and what it calls *)

\* `max_dist.log2().ceil().exp2() as i32` for max_dist > 0: the smallest
\* power of two c, 2 * c, ... that is not smaller than max_dist.
RECURSIVE pow2_ge(_, _)
pow2_ge(x, c) == IF c >= x THEN c ELSE pow2_ge(x, 2 * c)

\* The half-dimension `set` extends to.  log2 of 0.0 is -inf, and exp2 of it
\* 0.0; log2 of a negative number is NaN, which `as i32` casts to 0 (the
\* points of the runs below all have a largest coordinate >= 0).
extend_half_dim(point) ==
    LET max_dist == IF point[1] >= point[2] THEN point[1] ELSE point[2]
    IN  IF max_dist <= 0 THEN 0 ELSE pow2_ge(max_dist, 1)

\* The loop of `set` over the slots of a Leaf: Some(slots) when it returns
\* from `set` (the point found or stored), None when it falls through.
RECURSIVE set_slots(_, _, _)
set_slots(points, point, i) ==
    IF i >= 4
    THEN None
    ELSE IF IsSome(points[i + 1])
         THEN IF Unwrap(points[i + 1]) = point
              THEN Some(points)
              ELSE set_slots(points, point, i + 1)
         ELSE Some([points EXCEPT ![i + 1] = Some(point)])

RECURSIVE QTree_set(_, _)

\* `for point in elements { tree.set(*point) }`, from element i on.
RECURSIVE set_each(_, _, _)
set_each(self, elements, i) ==
    IF i > Len(elements)
    THEN self
    ELSE set_each(QTree_set(self, elements[i]), elements, i + 1)

QTree_new(boundary, elements) == set_each(EmptyLeaf(boundary), elements, 1)

\* points[i] of `subdivide`: the slots' points that bbs[i] contains.
RECURSIVE partition(_, _, _)
partition(slots, bb, k) ==
    IF k > 4
    THEN <<>>
    ELSE (IF IsSome(slots[k]) /\ AABB_contains(bb, Unwrap(slots[k]))
          THEN <<Unwrap(slots[k])>> ELSE <<>>) \o partition(slots, bb, k + 1)

\* A `subdivide` that forgets `self.points = None`.
subdivide_keeps_points(self) ==
    LET bbs   == new_bbs(self.boundary)
        slots == Unwrap(self.points)
    IN  [self EXCEPT
            !.children = Some(<< QTree_new(bbs[1], partition(slots, bbs[1], 1)),
                                 QTree_new(bbs[2], partition(slots, bbs[2], 1)),
                                 QTree_new(bbs[3], partition(slots, bbs[3], 1)),
                                 QTree_new(bbs[4], partition(slots, bbs[4], 1)) >>)]

\* A `subdivide` that builds the children west first: NW, NE, SW, SE.
subdivide_west_first(self) ==
    LET bbs   == new_bbs(self.boundary)
        slots == Unwrap(self.points)
    IN  [self EXCEPT
            !.points   = None,
            !.children = Some(<< QTree_new(bbs[2], partition(slots, bbs[2], 1)),
                                 QTree_new(bbs[1], partition(slots, bbs[1], 1)),
                                 QTree_new(bbs[4], partition(slots, bbs[4], 1)),
                                 QTree_new(bbs[3], partition(slots, bbs[3], 1)) >>)]

QTree_subdivide(self) ==
    LET bbs   == new_bbs(self.boundary)
        slots == Unwrap(self.points)
    IN  [self EXCEPT
            !.points   = None,
            !.children = Some(<< QTree_new(bbs[1], partition(slots, bbs[1], 1)),
                                 QTree_new(bbs[2], partition(slots, bbs[2], 1)),
                                 QTree_new(bbs[3], partition(slots, bbs[3], 1)),
                                 QTree_new(bbs[4], partition(slots, bbs[4], 1)) >>)]

QTree_extend(self, new_boundary) ==
    LET s1 == [self EXCEPT !.boundary = new_boundary]
    IN  IF IsSome(s1.children)
        THEN LET points == collect(into_iter(s1))
                 bbs    == new_bbs(s1.boundary)
                 s2     == [s1 EXCEPT !.children =
                               Some(<< QTree_new(bbs[1], <<>>),
                                       QTree_new(bbs[2], <<>>),
                                       QTree_new(bbs[3], <<>>),
                                       QTree_new(bbs[4], <<>>) >>)]
             IN  set_each(s2, points, 1)
        ELSE s1

QTree_set(self, point) ==
    LET s1 == IF ~AABB_contains(self.boundary, point)
              THEN QTree_extend(self, AABB_new(self.boundary.center,
                                               extend_half_dim(point)))
              ELSE self
        r  == IF IsSome(s1.points)
              THEN set_slots(Unwrap(s1.points), point, 0)
              ELSE None
    IN  IF IsSome(s1.points) /\ IsSome(r)
        THEN [s1 EXCEPT !.points = Some(Unwrap(r))]
        ELSE LET s2 == IF IsSome(s1.points) THEN QTree_subdivide(s1) ELSE s1
             IN  IF IsSome(s2.children)
                 THEN LET child == get_child(s2.boundary, point)
                      IN  [s2 EXCEPT !.children =
                             Some([Unwrap(@) EXCEPT
                                     ![child + 1] = QTree_set(@, point)])]
                 ELSE invalid_state(s2)

-----------------------------------------------------------------------------
(* QTree::get, QTree::remove, QTree::query *)

RECURSIVE QTree_get(_, _)
QTree_get(self, point) ==
    IF IsSome(self.points)
    THEN \E i \in 1..4 : Unwrap(self.points)[i] = Some(point)
    ELSE IF IsSome(self.children)
         THEN QTree_get(Unwrap(self.children)[get_child(self.boundary, point) + 1],
                        point)
         ELSE FALSE

\* A `check_union` without the `i >= QTREE_CAP` return: it keeps the first
\* QTREE_CAP items and collapses a node of any size.
check_union_any_size(self) ==
    LET ps == collect(into_iter(self))
    IN  IF FALSE
        THEN self
        ELSE [self EXCEPT
                !.points   = Some([i \in 1..4 |->
                                      IF i <= Len(ps) THEN Some(ps[i]) ELSE None]),
                !.children = None]

\* `points[i] = Some(p)` for the first QTREE_CAP + 1 items of the iterator;
\* more than QTREE_CAP items leave the node as it is.
check_union(self) ==
    LET ps == collect(into_iter(self))
    IN  IF Len(ps) > QTREE_CAP
        THEN self
        ELSE [self EXCEPT
                !.points   = Some([i \in 1..4 |->
                                      IF i <= Len(ps) THEN Some(ps[i]) ELSE None]),
                !.children = None]

\* `position`: Some(i) for the first slot i (0..3) that holds the point.
RECURSIVE position(_, _, _)
position(points, point, i) ==
    IF i >= 4 THEN None
    ELSE IF points[i + 1] = Some(point) THEN Some(i)
         ELSE position(points, point, i + 1)

RECURSIVE QTree_remove(_, _)
QTree_remove(self, point) ==
    IF IsSome(self.points)
    THEN LET index == position(Unwrap(self.points), point, 0)
         IN  IF IsSome(index)
             THEN [self EXCEPT !.points =
                     Some([Unwrap(@) EXCEPT ![Unwrap(index) + 1] = None])]
             ELSE self
    ELSE IF IsSome(self.children)
         THEN LET child == get_child(self.boundary, point)
              IN  check_union([self EXCEPT !.children =
                                 Some([Unwrap(@) EXCEPT
                                         ![child + 1] = QTree_remove(@, point)])])
         ELSE invalid_state(self)

\* `points.iter().filter_map(..)` of `query`: the slots' points, from slot i
\* (0..3) on, that the area contains.
RECURSIVE query_leaf(_, _, _)
query_leaf(points, area, i) ==
    IF i >= 4
    THEN <<>>
    ELSE (IF IsSome(points[i + 1]) /\ AABB_contains(area, Unwrap(points[i + 1]))
          THEN <<Unwrap(points[i + 1])>> ELSE <<>>)
             \o query_leaf(points, area, i + 1)

RECURSIVE QTree_query(_, _)
QTree_query(self, area) ==
    IF AABB_intersects(self.boundary, area)
    THEN IF IsSome(self.points)
         THEN query_leaf(Unwrap(self.points), area, 0)
         ELSE IF IsSome(self.children)
              THEN LET c == Unwrap(self.children)
                   IN  QTree_query(c[1], area) \o QTree_query(c[2], area)
                         \o QTree_query(c[3], area) \o QTree_query(c[4], area)
              ELSE <<>>
    ELSE <<>>

-----------------------------------------------------------------------------
(* The threads at rest: no Updater and no GUI has been created.            *)

NoThreads ==
    /\ heap = <<>>
    /\ updater = [pc |-> "none", current |-> None, next |-> None, iter |-> None]
    /\ gui = [pc |-> "none", data |-> None]
    /\ channel = <<>>
    /\ log = [sent |-> <<>>, received |-> <<>>, seen |-> 0,
              builds_after_drop |-> 0, failed_sends |-> 0]

\* No iterator has been made.
NoIterator ==
    /\ iterator = None
    /\ yielded = <<>>

-----------------------------------------------------------------------------
(* The panics of a call: `invalid_state`, and, in a build with overflow     *)
(* checks, each `+` and `-` whose result does not fit an i32.  Each         *)
(* predicate follows the calls of the operation it is named after.          *)

\* `point.0 - self.center.0`, `point.1 - self.center.1`, `-self.half_dim`.
contains_panics(self, point) ==
    /\ overflow_checks
    /\ \/ sub_overflows(point[1], self.center[1])
       \/ sub_overflows(point[2], self.center[2])
       \/ self.half_dim = MinI32

\* `center - half_dim` and `center + half_dim` of x_range and y_range.
range_panics(center, half_dim) ==
    /\ overflow_checks
    /\ (sub_overflows(center, half_dim) \/ add_overflows(center, half_dim))

\* The y ranges are computed only when the x ranges intersect.
intersects_panics(self, other) ==
    \/ range_panics(self.center[1], self.half_dim)
    \/ range_panics(other.center[1], other.half_dim)
    \/ /\ intersects_range(x_range(self), x_range(other))
       /\ \/ range_panics(self.center[2], self.half_dim)
          \/ range_panics(other.center[2], other.half_dim)

\* `set` on a Leaf that holds the point or has a free slot for it: the
\* arithmetic of the call is that of `contains`, since `extend` of a Leaf
\* only assigns the boundary and the slot loop returns.
set_panics(self, point) == contains_panics(self.boundary, point)

RECURSIVE get_panics(_, _)
get_panics(self, point) ==
    IF IsSome(self.points)
    THEN FALSE
    ELSE IF IsSome(self.children)
         THEN get_panics(Unwrap(self.children)[get_child(self.boundary, point) + 1],
                         point)
         ELSE TRUE

RECURSIVE remove_panics(_, _)
remove_panics(self, point) ==
    IF IsSome(self.points)
    THEN FALSE
    ELSE IF IsSome(self.children)
         THEN remove_panics(Unwrap(self.children)[get_child(self.boundary, point) + 1],
                            point)
         ELSE TRUE

RECURSIVE query_panics(_, _)
query_panics(self, area) ==
    IF intersects_panics(self.boundary, area)
    THEN TRUE
    ELSE IF ~AABB_intersects(self.boundary, area)
         THEN FALSE
         ELSE IF IsSome(self.points)
              THEN \E i \in 1..4 :
                       /\ IsSome(Unwrap(self.points)[i])
                       /\ contains_panics(area, Unwrap(Unwrap(self.points)[i]))
              ELSE IF IsSome(self.children)
                   THEN \E i \in 1..4 : query_panics(Unwrap(self.children)[i], area)
                   ELSE TRUE

-----------------------------------------------------------------------------
(* The program: a tree built by `QTree::new` and then any sequence of `set` *)
(* and `remove` calls.  `expected` is the set the tests keep beside the     *)
(* tree (the points set and not removed since), `op` the last call and      *)
(* `calls` the number of calls made so far.                                 *)

\* The points the calls draw from: those of the tests `set_divide` and
\* `extend`, and points with a negative or zero largest coordinate.
PointList ==
    << <<0, 0>>, <<3, 2>>, <<0, -3>>, <<0, -4>>, <<2, 2>>,
       <<-5, 0>>, <<9, 6>>, <<-1, 3>>, <<4, 2>>, <<-4, 1>> >>

NumPoints == 7

\* The number of `set` and `remove` calls a run makes.
MaxCalls == 5

Points == { PointList[i] : i \in 1..NumPoints }

\* The boundaries of the tests `set_divide` and `get_simple`.
InitBoundaries == { AABB_new(<<0, 0>>, 4), AABB_new(<<1, 3>>, 5) }

\* No initial points, and those of `get_simple`.
InitElements == { <<>>, << <<0, 0>>, <<4, 2>>, <<0, -3>> >> }

ToSet(seq) == { seq[i] : i \in 1..Len(seq) }

Init ==
    \E boundary \in InitBoundaries, elements \in InitElements :
        /\ tree = QTree_new(boundary, elements)
        /\ expected = ToSet(elements)
        /\ op = <<"new">>
        /\ calls = 0
        /\ overflow_checks = TRUE
        /\ NoThreads
        /\ NoIterator

Set(point) ==
    /\ calls < MaxCalls
    /\ calls' = calls + 1
    /\ tree' = QTree_set(tree, point)
    /\ expected' = expected \cup {point}
    /\ op' = <<"set", point>>
    /\ UNCHANGED <<overflow_checks, pub_vars, iter_vars>>

Remove(point) ==
    /\ calls < MaxCalls
    /\ calls' = calls + 1
    /\ tree' = QTree_remove(tree, point)
    /\ expected' = expected \ {point}
    /\ op' = <<"remove", point>>
    /\ UNCHANGED <<overflow_checks, pub_vars, iter_vars>>

Next ==
    \E point \in Points :
        \/ Set(point)
        \/ Remove(point)

Spec == Init /\ [][Next]_vars

\* `QTree::new(boundary, [])` followed by `set` calls of points not set
\* before: the runs of the containment round trip.
InitEmpty ==
    \E boundary \in InitBoundaries :
        /\ tree = QTree_new(boundary, <<>>)
        /\ expected = {}
        /\ op = <<"new">>
        /\ calls = 0
        /\ overflow_checks = TRUE
        /\ NoThreads
        /\ NoIterator

NextSet == \E point \in Points \ expected : Set(point)

SpecSet == InitEmpty /\ [][NextSet]_vars

-----------------------------------------------------------------------------
(* Calls of set, remove, get and query with points and boxes at the ends   *)
(* of i32, in a build with and in a build without overflow checks.  A call *)
(* that panics ends the run: `op` records it.  `set` is called while the   *)
(* tree is a Leaf with room for the point.                                 *)

\* The number of calls a run makes.
MaxFarCalls == 3

FarPoints == { <<0, 0>>, <<3, 2>>, <<0, -3>>, <<MinI32, 0>>, <<2, MinI32>> }

FarAreas ==
    { AABB_new(<<0, 0>>, 2), AABB_new(<<0, 0>>, MaxI32), AABB_new(<<MaxI32, 0>>, 1) }

InitFar ==
    \E boundary \in InitBoundaries :
        /\ tree = QTree_new(boundary, <<>>)
        /\ expected = {}
        /\ op = <<"new">>
        /\ calls = 0
        /\ overflow_checks \in BOOLEAN
        /\ NoThreads
        /\ NoIterator

\* What every call does beside its own work.
FarCall ==
    /\ calls < MaxFarCalls
    /\ op[1] # "panic"
    /\ calls' = calls + 1
    /\ UNCHANGED <<overflow_checks, pub_vars, iter_vars>>

FarSet(point) ==
    /\ FarCall
    /\ IsSome(tree.points)
    /\ IsSome(set_slots(Unwrap(tree.points), point, 0))
    /\ IF set_panics(tree, point)
       THEN /\ op' = <<"panic", "set", point>>
            /\ UNCHANGED <<tree, expected>>
       ELSE /\ op' = <<"set", point>>
            /\ tree' = QTree_set(tree, point)
            /\ expected' = expected \cup {point}

FarRemove(point) ==
    /\ FarCall
    /\ IF remove_panics(tree, point)
       THEN /\ op' = <<"panic", "remove", point>>
            /\ UNCHANGED <<tree, expected>>
       ELSE /\ op' = <<"remove", point>>
            /\ tree' = QTree_remove(tree, point)
            /\ expected' = expected \ {point}

FarGet(point) ==
    /\ FarCall
    /\ op' = IF get_panics(tree, point)
             THEN <<"panic", "get", point>>
             ELSE <<"get", point, QTree_get(tree, point)>>
    /\ UNCHANGED <<tree, expected>>

FarQuery(area) ==
    /\ FarCall
    /\ op' = IF query_panics(tree, area)
             THEN <<"panic", "query", area>>
             ELSE <<"query", area, QTree_query(tree, area)>>
    /\ UNCHANGED <<tree, expected>>

NextFar ==
    \/ \E point \in FarPoints : FarSet(point)
    \/ \E point \in FarPoints : FarRemove(point)
    \/ \E point \in FarPoints : FarGet(point)
    \/ \E area \in FarAreas : FarQuery(area)

SpecFar == InitFar /\ [][NextFar]_vars

-----------------------------------------------------------------------------
(* Calls of AABB::contains and AABB::intersects: the boxes and points of   *)
(* the tests `aabb::contains` and `aabb::intersects`, the points around    *)
(* them, and boxes and points at the ends of i32.  `op` records the call   *)
(* and what it returned.                                                   *)

\* How far around the center of the tests' box (10, 2) the points reach.
GridRadius == 5

BoxPoints ==
    { <<10 + dx, 2 + dy>> : dx \in -GridRadius..GridRadius,
                            dy \in -GridRadius..GridRadius }
        \cup { <<MinI32, 0>>, <<MinI32 + 1, 0>>, <<MaxI32, 0>> }

Boxes ==
    { AABB_new(<<10, 2>>, 4), AABB_new(<<6, 3>>, 1), AABB_new(<<6, -3>>, 1),
      AABB_new(<<11, 0>>, 1), AABB_new(<<1, 3>>, 5), AABB_new(<<MaxI32, 0>>, 1),
      AABB_new(<<MaxI32, 0>>, 5) }

InitBox ==
    /\ tree = EmptyLeaf(AABB_new(<<10, 2>>, 4))
    /\ expected = {}
    /\ op = <<"new">>
    /\ calls = 0
    /\ overflow_checks \in BOOLEAN
    /\ NoThreads
    /\ NoIterator

Contains(self, point) ==
    /\ op' = IF contains_panics(self, point)
             THEN <<"panic", "contains", self, point>>
             ELSE <<"contains", self, point, AABB_contains(self, point)>>
    /\ UNCHANGED <<tree, expected, calls, overflow_checks, pub_vars, iter_vars>>

Intersects(self, other) ==
    /\ op' = IF intersects_panics(self, other)
             THEN <<"panic", "intersects", self, other>>
             ELSE <<"intersects", self, other, AABB_intersects(self, other)>>
    /\ UNCHANGED <<tree, expected, calls, overflow_checks, pub_vars, iter_vars>>

NextBox ==
    \/ \E self \in Boxes, point \in BoxPoints : Contains(self, point)
    \/ \E self \in Boxes, other \in Boxes : Intersects(self, other)

SpecBox == InitBox /\ [][NextBox]_vars

-----------------------------------------------------------------------------
(* A caller that walks a tree with its iterator: `into_iter` at any time,   *)
(* and `next` as often as it likes, also after `next` has returned None.    *)

\* The points of the test `nested`: the first five lie in the north-east
\* quadrant of its box and give the tree a second level.
IterPointList ==
    << <<0, 0>>, <<0, 1>>, <<3, 2>>, <<1, 3>>, <<2, 0>>,
       <<-4, 1>>, <<-1, 3>>, <<0, -3>>, <<2, -1>>, <<-1, -4>> >>

\* The most points a walked tree is built from.
MaxIterPoints == 7

\* The calls of `next` a walk makes after the first None.
MaxAfterNone == 2

RECURSIVE remove_each(_, _, _)
remove_each(self, points, i) ==
    IF i > Len(points)
    THEN self
    ELSE remove_each(QTree_remove(self, points[i]), points, i + 1)

\* The walked trees: QTree::new of the first n points, then some removed.
IterRemoved == { <<>>, << <<0, 0>> >>, << <<0, 1>>, <<3, 2>> >>, << <<-4, 1>> >> }

InitIter ==
    \E n \in 0..MaxIterPoints, removed \in IterRemoved :
        /\ n <= Len(IterPointList)
        /\ tree = remove_each(QTree_new(AABB_new(<<0, 0>>, 4),
                                        SubSeq(IterPointList, 1, n)),
                              removed, 1)
        /\ expected = ToSet(SubSeq(IterPointList, 1, n)) \ ToSet(removed)
        /\ op = <<"new">>
        /\ calls = 0
        /\ overflow_checks = TRUE
        /\ NoThreads
        /\ NoIterator

IntoIter ==
    /\ iterator' = Some(into_iter(tree))
    /\ yielded' = <<>>
    /\ op' = <<"into_iter">>
    /\ UNCHANGED <<tree, expected, calls, overflow_checks, pub_vars>>

\* The calls of `next` made after the first None.
AfterNone == Cardinality({ i \in 1..Len(yielded) : yielded[i] = None }) - 1

IterNext ==
    /\ IsSome(iterator)
    /\ AfterNone < MaxAfterNone
    /\ LET r == QTreeIter_next(Unwrap(iterator))
       IN  /\ iterator' = Some(r.it)
           /\ yielded' = Append(yielded, r.item)
           /\ op' = <<"next", r.item>>
    /\ UNCHANGED <<tree, expected, calls, overflow_checks, pub_vars>>

NextIter == IntoIter \/ IterNext

SpecIter == InitIter /\ [][NextIter]_vars

-----------------------------------------------------------------------------
(* A tree created empty with a power-of-two half-dimension, and `set` and   *)
(* `remove` calls whose points all lie inside its boundary.                 *)

\* The four points of the box of half-dimension 1 around (0, 0), and one
\* more of the box of half-dimension 2.
InsidePoints == { <<0, 0>>, <<-1, 0>>, <<0, -1>>, <<-1, -1>>, <<1, 1>> }

\* The half-dimensions the tree is created with.
InsideHalfDims == { 1, 2 }

\* The number of calls a run makes.
MaxInsideCalls == 7

InitInside ==
    \E half_dim \in InsideHalfDims :
        /\ tree = QTree_new(AABB_new(<<0, 0>>, half_dim), <<>>)
        /\ expected = {}
        /\ op = <<"new">>
        /\ calls = 0
        /\ overflow_checks = TRUE
        /\ NoThreads
        /\ NoIterator

\* The root boundary is the initial one as long as no call has changed it,
\* which InsideSet lets no call do unnoticed: a point inside the root
\* boundary does not take the extension branch of `set`.
InsideSet(point) ==
    /\ calls < MaxInsideCalls
    /\ AABB_contains(tree.boundary, point)
    /\ calls' = calls + 1
    /\ tree' = QTree_set(tree, point)
    /\ expected' = expected \cup {point}
    /\ op' = <<"set", point>>
    /\ UNCHANGED <<overflow_checks, pub_vars, iter_vars>>

InsideRemove(point) ==
    /\ calls < MaxInsideCalls
    /\ calls' = calls + 1
    /\ tree' = QTree_remove(tree, point)
    /\ expected' = expected \ {point}
    /\ op' = <<"remove", point>>
    /\ UNCHANGED <<overflow_checks, pub_vars, iter_vars>>

NextInside ==
    \E point \in InsidePoints :
        \/ InsideSet(point)
        \/ InsideRemove(point)

SpecInside == InitInside /\ [][NextInside]_vars

-----------------------------------------------------------------------------
(* The Updater thread (src/src/backend/updater.rs) and the GUI thread       *)
(* (GUI::run of src/src/gui/mod.rs), joined by a std::sync::mpsc channel of *)
(* Arc<QTree>.  `heap` maps each live Arc allocation to its tree and its    *)
(* strong count; allocation g holds generation g.  `channel` is the queue   *)
(* of handles in flight.  `log` records what was sent and received.         *)

\* The generations a run sends and the handles the queue holds at a time.
MaxGens == 3

MaxQueue == 2

\* `current.boundary()`.
QTree_boundary(self) == self.boundary

\* Dropping one handle of allocation id: the last one frees it.
Release(h, id) ==
    IF h[id].strong = 1
    THEN [i \in DOMAIN h \ {id} |-> h[i]]
    ELSE [h EXCEPT ![id].strong = @ - 1]

\* Dropping the handles still queued, when the Receiver is dropped.
RECURSIVE ReleaseAll(_, _)
ReleaseAll(h, ids) ==
    IF ids = <<>> THEN h ELSE ReleaseAll(Release(h, Head(ids)), Tail(ids))

\* The initial points of the tree given to `Updater::new`: none, those of
\* `get_simple`, those of `set_divide`.
PubElements == { <<>>, << <<0, 0>>, <<4, 2>>, <<0, -3>> >>, SubSeq(PointList, 1, 5) }

InitUpdaterAt(boundary, elements) ==
    /\ tree = QTree_new(boundary, elements)
    /\ expected = ToSet(elements)
    /\ op = <<"new">>
    /\ calls = 0
    /\ overflow_checks = TRUE
    /\ heap = (0 :> [tree |-> tree, strong |-> 1])
    /\ updater = [pc |-> "send", current |-> Some(0), next |-> None, iter |-> None]
    /\ gui = [pc |-> "poll", data |-> None]
    /\ channel = <<>>
    /\ log = [sent |-> <<>>, received |-> <<>>, seen |-> 0,
              builds_after_drop |-> 0, failed_sends |-> 0]
    /\ NoIterator

InitUpdater(elements) == InitUpdaterAt(AABB_new(<<0, 0>>, 4), elements)

InitPub == \E elements \in PubElements : InitUpdater(elements)

\* Initial points that stay in one Leaf.
LeafElements == { <<>>, << <<0, 0>>, <<3, 2>>, <<0, -3>> >> }

InitLeaf == \E elements \in LeafElements : InitUpdater(elements)

\* A send that is tried again after it failed.
UpdSend_retry ==
    /\ updater.pc = "send"
    /\ LET id == Unwrap(updater.current)
       IN  IF gui.pc # "closed"
           THEN /\ Len(channel) < MaxQueue
                /\ id < MaxGens
                /\ channel' = Append(channel, id)
                /\ heap' = [heap EXCEPT ![id].strong = @ + 1]
                /\ log' = [log EXCEPT !.sent = Append(@, id)]
                /\ updater' = [updater EXCEPT !.pc = "build_new"]
           ELSE /\ log.failed_sends < 2
                /\ log' = [log EXCEPT !.failed_sends = @ + 1]
                /\ UNCHANGED <<channel, heap, updater>>
    /\ UNCHANGED <<gui, tree_vars, iter_vars>>

\* `self.data_send.send(Arc::clone(&self.current)).is_ok()`: the handle is
\* queued while the Receiver lives; once it is dropped the send fails, the
\* loop ends and `run` drops the Updater.
UpdSend ==
    /\ updater.pc = "send"
    /\ LET id == Unwrap(updater.current)
       IN  IF gui.pc # "closed"
           THEN /\ Len(channel) < MaxQueue
                /\ id < MaxGens
                /\ channel' = Append(channel, id)
                /\ heap' = [heap EXCEPT ![id].strong = @ + 1]
                /\ log' = [log EXCEPT !.sent = Append(@, id)]
                /\ updater' = [updater EXCEPT !.pc = "build_new"]
           ELSE /\ channel' = channel
                /\ heap' = Release(heap, id)
                /\ log' = [log EXCEPT !.failed_sends = @ + 1]
                /\ updater' = [pc |-> "done", current |-> None, next |-> None, iter |-> None]
    /\ UNCHANGED <<gui, tree_vars, iter_vars>>

\* A build that edits the tree already handed out instead of a fresh one.
UpdBuildNew_in_place ==
    /\ updater.pc = "build_new"
    /\ LET cur == Unwrap(updater.current)
       IN  /\ heap' = [heap EXCEPT ![cur].strong = @ + 1]
           /\ updater' = [updater EXCEPT !.pc = "build_get_mut", !.next = Some(cur)]
    /\ log' = [log EXCEPT !.builds_after_drop =
                              IF gui.pc = "closed" THEN @ + 1 ELSE @]
    /\ UNCHANGED <<gui, channel, tree_vars, iter_vars>>

\* `let mut next = Arc::new(QTree::new(current.boundary(), &vec![]))`.
UpdBuildNew ==
    /\ updater.pc = "build_new"
    /\ LET cur == Unwrap(updater.current)
           id  == cur + 1
       IN  /\ heap' = heap @@
                 (id :> [tree   |-> QTree_new(QTree_boundary(heap[cur].tree), <<>>),
                         strong |-> 1])
           /\ updater' = [updater EXCEPT !.pc = "build_get_mut", !.next = Some(id)]
    /\ log' = [log EXCEPT !.builds_after_drop =
                              IF gui.pc = "closed" THEN @ + 1 ELSE @]
    /\ UNCHANGED <<gui, channel, tree_vars, iter_vars>>

\* `let data = Arc::get_mut(&mut next).unwrap()`: get_mut gives None, and
\* unwrap panics, unless the handle is the only one of its allocation.
\* Then `current.into_iter()` of the `for` loop.
UpdBuildGetMut ==
    /\ updater.pc = "build_get_mut"
    /\ LET cur == Unwrap(updater.current)
           id  == Unwrap(updater.next)
       IN  IF heap[id].strong = 1
           THEN /\ heap' = heap
                /\ updater' = [updater EXCEPT
                                  !.pc = "build_fill",
                                  !.iter = Some(into_iter(heap[cur].tree))]
           ELSE /\ heap' = Release(Release(heap, id), cur)
                /\ updater' = [pc |-> "panic", current |-> None,
                               next |-> None, iter |-> None]
    /\ UNCHANGED <<gui, channel, log, tree_vars, iter_vars>>

\* One turn of `for point in current { data.set(point); }`: the iterator
\* gives the next point, which is set in the new tree, or ends the loop.
UpdBuildFill ==
    /\ updater.pc = "build_fill"
    /\ LET id == Unwrap(updater.next)
           r  == QTreeIter_next(Unwrap(updater.iter))
       IN  IF IsSome(r.item)
           THEN /\ heap' = [heap EXCEPT
                               ![id].tree = QTree_set(heap[id].tree, Unwrap(r.item))]
                /\ updater' = [updater EXCEPT !.iter = Some(r.it)]
           ELSE /\ heap' = heap
                /\ updater' = [updater EXCEPT !.pc = "assign", !.iter = None]
    /\ UNCHANGED <<gui, channel, log, tree_vars, iter_vars>>

\* `self.current = Self::build_next(..)`: the old handle is dropped.
UpdAssign ==
    /\ updater.pc = "assign"
    /\ heap' = Release(heap, Unwrap(updater.current))
    /\ updater' = [pc |-> "send", current |-> updater.next, next |-> None, iter |-> None]
    /\ UNCHANGED <<gui, channel, log, tree_vars, iter_vars>>

\* `while !self.window.window.should_close()` and the events of the frame
\* when the window stays open.
GuiPoll ==
    /\ gui.pc = "poll"
    /\ gui' = [gui EXCEPT !.pc = "recv"]
    /\ UNCHANGED <<heap, updater, channel, log, tree_vars, iter_vars>>

\* The window is closed or Escape is pressed: `run` returns and drops the
\* GUI, its Receiver and the handles still queued.
GuiClose ==
    /\ gui.pc = "poll"
    /\ gui' = [gui EXCEPT !.pc = "closed"]
    /\ heap' = ReleaseAll(heap, channel)
    /\ channel' = <<>>
    /\ UNCHANGED <<updater, log, tree_vars, iter_vars>>

\* A receive that takes the newest queued handle and leaves the older ones.
GuiRecv_newest_first ==
    /\ gui.pc = "recv"
    /\ IF channel # <<>>
       THEN /\ gui' = [pc |-> "draw", data |-> Some(channel[Len(channel)])]
            /\ channel' = SubSeq(channel, 1, Len(channel) - 1)
            /\ log' = [log EXCEPT !.received = Append(@, channel[Len(channel)]),
                                   !.seen = Len(log.sent)]
       ELSE /\ updater.pc \in {"done", "panic"}
            /\ gui' = [gui EXCEPT !.pc = "poll"]
            /\ UNCHANGED <<channel, log>>
    /\ UNCHANGED <<heap, updater, tree_vars, iter_vars>>

\* A receive that drains the queue and keeps only the newest handle.
GuiRecv_drain ==
    /\ gui.pc = "recv"
    /\ IF channel # <<>>
       THEN /\ gui' = [pc |-> "draw", data |-> Some(channel[Len(channel)])]
            /\ channel' = <<>>
            /\ heap' = ReleaseAll(heap, SubSeq(channel, 1, Len(channel) - 1))
            /\ log' = [log EXCEPT !.received = Append(@, channel[Len(channel)]),
                                   !.seen = Len(log.sent)]
       ELSE /\ updater.pc \in {"done", "panic"}
            /\ gui' = [gui EXCEPT !.pc = "poll"]
            /\ UNCHANGED <<channel, log, heap>>
    /\ UNCHANGED <<updater, tree_vars, iter_vars>>

\* `if let Ok(data) = self.data_recv.recv()`: the oldest queued handle;
\* recv blocks while the queue is empty and a Sender lives, and gives Err
\* once the queue is empty and the Sender is dropped.
GuiRecv ==
    /\ gui.pc = "recv"
    /\ IF channel # <<>>
       THEN /\ gui' = [pc |-> "draw", data |-> Some(Head(channel))]
            /\ channel' = Tail(channel)
            /\ log' = [log EXCEPT !.received = Append(@, Head(channel)),
                                   !.seen = Len(log.sent)]
       ELSE /\ updater.pc \in {"done", "panic"}
            /\ gui' = [gui EXCEPT !.pc = "poll"]
            /\ UNCHANGED <<channel, log>>
    /\ UNCHANGED <<heap, updater, tree_vars, iter_vars>>

\* `self.renderer.draw(&*data)`, after which `data` is dropped.
GuiDraw ==
    /\ gui.pc = "draw"
    /\ heap' = Release(heap, Unwrap(gui.data))
    /\ gui' = [pc |-> "poll", data |-> None]
    /\ UNCHANGED <<updater, channel, log, tree_vars, iter_vars>>

UpdaterStep ==
    UpdSend \/ UpdBuildNew \/ UpdBuildGetMut \/ UpdBuildFill \/ UpdAssign

GuiStep == GuiPoll \/ GuiClose \/ GuiRecv \/ GuiDraw

NextPub == UpdaterStep \/ GuiStep

\* The Updater is a thread of its own: it is scheduled whenever it can run.
SpecPub == InitPub /\ [][NextPub]_vars /\ WF_vars(UpdaterStep)

\* The same threads, started on a tree of one Leaf.
SpecShutdown == InitLeaf /\ [][NextPub]_vars /\ WF_vars(UpdaterStep)

\* Initial trees in the box of `get_simple` whose points made `set` extend:
\* (5, 7) lies inside the box, (-5, 0) and (9, 6) outside it.
RebuildElements ==
    { << <<5, 7>>, <<-5, 0>> >>,
      << <<0, 0>>, <<5, 7>>, <<-5, 0>> >>,
      << <<4, 2>>, <<9, 6>> >> }

InitRebuild ==
    \E elements \in RebuildElements : InitUpdaterAt(AABB_new(<<1, 3>>, 5), elements)

SpecRebuild == InitRebuild /\ [][NextPub]_vars /\ WF_vars(UpdaterStep)

-----------------------------------------------------------------------------
(* What the claims speak of *)

\* The points a full enumeration of the tree yields, as a set.
Enumerated(t) == ToSet(collect(into_iter(t)))

Abs(x) == IF x < 0 THEN -x ELSE x

\* The smallest power of two not smaller than max(|x|, |y|).
MagnitudeHalfDim(point) ==
    LET m == IF Abs(point[1]) >= Abs(point[2]) THEN Abs(point[1])
                                               ELSE Abs(point[2])
    IN  pow2_ge(m, 1)

\* The boxes `query` is asked about.
MaxAreaHalfDim == 2

Areas == { AABB_new(c, h) : c \in Points, h \in 1..MaxAreaHalfDim }

\* No Leaf holds more than QTREE_CAP points and every Internal node holds
\* more than QTREE_CAP points among its descendants.
RECURSIVE CapacityOk(_)
CapacityOk(t) ==
    IF IsSome(t.points)
    THEN Cardinality({ i \in 1..4 : IsSome(Unwrap(t.points)[i]) }) <= QTREE_CAP
    ELSE /\ IsSome(t.children)
         /\ Len(collect(into_iter(t))) > QTREE_CAP
         /\ \A i \in 1..4 : CapacityOk(Unwrap(t.children)[i])

-----------------------------------------------------------------------------
(* The claims *)

\* C1 (containment round trip): after QTree::new(boundary, []) and set(p)
\* for each p of a set P of distinct points, get(p) is true for every p in
\* P and get(q) is false for every q not in P.
C1_ContainmentRoundTrip ==
    \A q \in Points : QTree_get(tree, q) <=> q \in expected

\* C2 (enumeration completeness): after any interleaving of set and remove
\* calls, the set of points a full enumeration yields is the set of points
\* inserted (the initial points included) minus those removed afterwards.
C2_EnumerationComplete == Enumerated(tree) = expected

\* C3 (set preserves the stored points): for every point q other than p,
\* if get(q) is true before set(p) then get(q) is true after it.
C3_SetPreserves ==
    [][ op'[1] = "set" =>
          \A q \in Points :
              (q # op'[2] /\ QTree_get(tree, q)) => QTree_get(tree', q) ]_vars

\* C4 (insert/remove inverse): for every tree and every point p not stored
\* in it, set(p) and then remove(p) leave the tree holding the point set it
\* held before the set(p).
C4_SetRemoveInverse ==
    \A p \in Points :
        ~QTree_get(tree, p) =>
            Enumerated(QTree_remove(QTree_set(tree, p), p)) = Enumerated(tree)

\* C5 (query correctness): for every query box A, query(A) returns exactly
\* the points p of the full enumeration for which A.contains(p) holds.
C5_QueryCorrect ==
    \A area \in Areas :
        ToSet(QTree_query(tree, area))
            = { p \in Enumerated(tree) : AABB_contains(area, p) }

\* C6 (the boundary contains the point set): after set(p) returns, the
\* root boundary contains p.
C6_BoundaryContainsSetPoint ==
    op[1] = "set" => AABB_contains(tree.boundary, op[2])

\* C7 (capacity invariant): after any sequence of new/set/remove calls,
\* every Leaf holds at most 4 points and every Internal node has more than
\* 4 points in total among its descendants.
C7_Capacity == CapacityOk(tree)

\* C8 (inserting an existing point is a no-op): if get(p) is true then
\* set(p) leaves the tree unchanged: same slots, same shape, same boundary.
C8_SetExistingNoOp ==
    [][ (op'[1] = "set" /\ QTree_get(tree, op'[2])) => tree' = tree ]_vars

\* C9 (remove makes the point absent): get(p) is false immediately after
\* remove(p) returns.
C9_RemovedIsAbsent ==
    op[1] = "remove" => ~QTree_get(tree, op[2])

\* C10 (boundary extension size): when set(p) is called with p outside the
\* boundary, the resulting root boundary has the same center and the
\* smallest power of two not smaller than max(|p.x|, |p.y|) as its
\* half-dimension.
C10_ExtensionSize ==
    [][ (op'[1] = "set" /\ ~AABB_contains(tree.boundary, op'[2])) =>
          tree'.boundary = AABB_new(tree.boundary.center,
                                    MagnitudeHalfDim(op'[2])) ]_vars

\* C11 (invariant I2): every point stored under a node lies inside that
\* node's boundary, and every point stored under child i of an Internal
\* node is one the quadrant rule on the parent's center assigns to child i.
RECURSIVE I2Ok(_)
I2Ok(t) ==
    /\ \A p \in Enumerated(t) : AABB_contains(t.boundary, p)
    /\ IsSome(t.children) =>
          \A i \in 1..4 :
              /\ \A p \in Enumerated(Unwrap(t.children)[i]) :
                     get_child(t.boundary, p) = i - 1
              /\ I2Ok(Unwrap(t.children)[i])

C11_PointsInsideBoundary == I2Ok(tree)

\* C12 (invariant I1): every node has exactly one of `points` and
\* `children` set, so no call reaches `invalid_state` (a call that reached
\* it would leave a node with neither in the tree).
RECURSIVE I1Ok(_)
I1Ok(t) ==
    /\ IsSome(t.points) # IsSome(t.children)
    /\ IsSome(t.children) => \A i \in 1..4 : I1Ok(Unwrap(t.children)[i])

C12_LeafXorInternal == I1Ok(tree)

\* An Internal root that a `remove` left Internal: `subdivide` and
\* `check_union` have both run.
C12_Witness == op[1] = "remove" /\ IsSome(tree.children)

\* The points of the occupied slots of a Leaf.
SlotPoints(t) == { Unwrap(Unwrap(t.points)[i]) :
                     i \in { j \in 1..4 : IsSome(Unwrap(t.points)[j]) } }

\* C13 (split and collapse): setting a 5th distinct point in a full Leaf
\* turns it into an Internal node holding exactly those 5 points, setting a
\* point an Internal node holds changes nothing, and removing one point of
\* an Internal node that holds exactly 5 points collapses it to a Leaf
\* holding exactly the remaining 4 points.
C13_SplitAndCollapse ==
    [][ /\ ( /\ op'[1] = "set"
             /\ IsSome(tree.points)
             /\ Cardinality(SlotPoints(tree)) = QTREE_CAP
             /\ op'[2] \notin SlotPoints(tree) )
          => ( /\ IsSome(tree'.children)
               /\ ~IsSome(tree'.points)
               /\ Enumerated(tree') = SlotPoints(tree) \cup {op'[2]} )
        /\ ( /\ op'[1] = "set"
             /\ IsSome(tree.children)
             /\ op'[2] \in Enumerated(tree) )
          => tree' = tree
        /\ ( /\ op'[1] = "remove"
             /\ IsSome(tree.children)
             /\ Len(collect(into_iter(tree))) = QTREE_CAP + 1
             /\ Cardinality(Enumerated(tree)) = QTREE_CAP + 1
             /\ op'[2] \in Enumerated(tree) )
          => ( /\ IsSome(tree'.points)
               /\ ~IsSome(tree'.children)
               /\ SlotPoints(tree') = Enumerated(tree) \ {op'[2]} ) ]_vars

\* C15 (removing an absent point is a no-op): if get(p) is false then
\* remove(p) leaves the tree unchanged.
C15_RemoveAbsentNoOp ==
    [][ (op'[1] = "remove" /\ ~QTree_get(tree, op'[2])) => tree' = tree ]_vars

\* C20 (boundaries only grow and stay valid): over any sequence of set and
\* remove calls the root boundary's center never changes, its
\* half-dimension never decreases, and every node's boundary keeps
\* half_dim > 0.
RECURSIVE HalfDimsPositive(_)
HalfDimsPositive(t) ==
    /\ t.boundary.half_dim > 0
    /\ IsSome(t.children) =>
          \A i \in 1..4 : HalfDimsPositive(Unwrap(t.children)[i])

C20_BoundariesGrow ==
    [][ /\ tree'.boundary.center = tree.boundary.center
        /\ tree'.boundary.half_dim >= tree.boundary.half_dim
        /\ HalfDimsPositive(tree') ]_vars


-----------------------------------------------------------------------------
(* C16..C19: the Updater and the GUI *)

SentIds == { log.sent[i] : i \in DOMAIN log.sent }

\* The handle the Updater is about to write through is the only one of its
\* allocation and was never sent, queued or given to the GUI.
FillIsPrivate ==
    updater.pc \in {"build_get_mut", "build_fill"} =>
        LET id == Unwrap(updater.next)
        IN  /\ heap[id].strong = 1
            /\ id \notin SentIds
            /\ \A i \in DOMAIN channel : channel[i] # id
            /\ gui.data # Some(id)

\* C16: the Updater never mutates a tree whose handle has been sent: every
\* set is done on a fresh tree with reference count 1 that was not sent, so
\* Arc::get_mut never fails (the Updater never panics) and a tree that was
\* sent stays as it was for as long as it lives.
C16_NoSharedMutation ==
    /\ [](updater.pc # "panic" /\ FillIsPrivate)
    /\ [][\A id \in SentIds :
             (id \in DOMAIN heap /\ id \in DOMAIN heap')
                 => heap'[id].tree = heap[id].tree]_vars

C16_Witness ==
    /\ updater.pc = "assign"
    /\ gui.pc = "draw"
    /\ Unwrap(updater.current) \in SentIds
    /\ collect(into_iter(heap[Unwrap(updater.next)].tree)) # <<>>

\* C17: once the Receiver is dropped nothing more is sent, the next send of
\* the Updater fails and ends `run`; the Updater builds at most one further
\* generation, a failed send is never tried again, and `run` does return.
C17_Shutdown ==
    /\ [](/\ log.failed_sends <= 1
          /\ log.builds_after_drop <= 1
          /\ (log.failed_sends = 1 => updater.pc = "done"))
    /\ [][gui.pc = "closed" =>
             /\ log'.sent = log.sent
             /\ (updater.pc = "send" /\ updater' # updater
                     => updater'.pc = "done")]_vars
    /\ ((gui.pc = "closed") ~> (updater.pc = "done"))

C17_Witness ==
    /\ gui.pc = "closed"
    /\ updater.pc = "done"
    /\ log.failed_sends = 1
    /\ log.builds_after_drop = 1

\* C18: of any two snapshots received, the one received later is a later
\* generation, and the snapshots received are among those sent.
C18_Fifo ==
    /\ \A i, j \in DOMAIN log.received :
           i < j => log.received[i] < log.received[j]
    /\ \A i \in DOMAIN log.received : log.received[i] \in SentIds

C18_Witness ==
    /\ Len(log.received) >= 2
    /\ gui.pc = "draw"

\* C19 as stated: a receive made when several snapshots were published
\* since the previous receive obtains the most recently published one.
C19_SeesLatest ==
    [][(gui.pc = "recv" /\ gui'.pc = "draw" /\ Len(log.sent) - log.seen >= 2)
           => gui'.data = Some(log.sent[Len(log.sent)])]_vars

\* C19 as amended: every receive obtains the oldest published snapshot not
\* yet received; no generation is skipped.
C19_SeesOldestUnreceived ==
    log.received = SubSeq(log.sent, 1, Len(log.received))

C19_Witness ==
    /\ gui.pc = "draw"
    /\ Len(log.received) = 2
    /\ Len(log.sent) = 3
    /\ channel # <<>>


-----------------------------------------------------------------------------
(* C14 *)

\* C14: every call of set, remove, get and query, on any point or box,
\* returns normally: no call panics.  (That each call terminates is what
\* computing its result shows.)
C14_Total == op[1] # "panic"


-----------------------------------------------------------------------------
(* C21, C22: the boxes *)

\* center - half_dim <= x < center + half_dim in the integers, for
\* half_dim > 0: a bound beyond the ends of i32 is met by every i32.
InHalfOpen(center, half_dim, x) ==
    /\ (IF sub_overflows(center, half_dim) THEN TRUE ELSE center - half_dim <= x)
    /\ (IF add_overflows(center, half_dim) THEN TRUE ELSE x < center + half_dim)

\* a - b < s in the integers, for a small s >= 0.
DiffLess(a, b, s) ==
    IF sub_overflows(a, b) THEN b > 0 ELSE a - b < s

\* The half-open intervals [ca - ha, ca + ha) and [cb - hb, cb + hb) share
\* an integer.
Overlap(ca, ha, cb, hb) ==
    DiffLess(ca, cb, ha + hb) /\ DiffLess(cb, ca, ha + hb)

\* C21: contains returns true iff the point lies in the half-open square
\* center - half_dim <= x < center + half_dim, the same for y.
C21_ContainsHalfOpen ==
    /\ (op[1] = "contains" =>
           (op[4] <=> /\ InHalfOpen(op[2].center[1], op[2].half_dim, op[3][1])
                      /\ InHalfOpen(op[2].center[2], op[2].half_dim, op[3][2])))
    /\ ~(op[1] = "panic" /\ op[2] = "contains")

\* C22: a.intersects(b) is true iff the x ranges and the y ranges of a and
\* b overlap as half-open intervals, and so is b.intersects(a).
C22_IntersectsExact ==
    /\ (op[1] = "intersects" =>
           /\ op[4] <=> /\ Overlap(op[2].center[1], op[2].half_dim,
                                   op[3].center[1], op[3].half_dim)
                        /\ Overlap(op[2].center[2], op[2].half_dim,
                                   op[3].center[2], op[3].half_dim)
           /\ op[4] <=> AABB_intersects(op[3], op[2]))
    /\ ~(op[1] = "panic" /\ op[2] = "intersects")


-----------------------------------------------------------------------------
(* C23, C24 *)

\* C23: no point is stored twice, in two slots of a Leaf or in two places of
\* the tree: the points the iterator yields are pairwise different.
C23_DistinctPoints ==
    LET ps == collect(into_iter(tree))
    IN  \A i, j \in 1..Len(ps) : i # j => ps[i] # ps[j]

RECURSIVE Tiled(_)
Tiled(t) ==
    IsSome(t.children) =>
        \A i \in 1..4 :
            /\ Unwrap(t.children)[i].boundary = new_bbs(t.boundary)[i]
            /\ Tiled(Unwrap(t.children)[i])

\* C24: child i of every Internal node has the boundary
\* new_bbs(parent boundary)[i]; no child's boundary is changed in place.
C24_ChildrenTile == Tiled(tree)


-----------------------------------------------------------------------------
(* C25 *)

\* A full Leaf with an even half-dimension whose 4 points lie inside its
\* boundary.
FullEvenLeaf(t) ==
    /\ IsSome(t.points)
    /\ \A i \in 1..4 : IsSome(Unwrap(t.points)[i])
    /\ Cardinality(SlotPoints(t)) = 4
    /\ t.boundary.half_dim % 2 = 0
    /\ \A q \in SlotPoints(t) : AABB_contains(t.boundary, q)

\* The number of times the iterator yields q.
Count(t, q) ==
    LET ps == collect(into_iter(t))
    IN  Cardinality({ i \in 1..Len(ps) : ps[i] = q })

\* C25: when a set of a new point inside the boundary finds such a Leaf
\* and subdivides it, `subdivide` leaves each of the 4 points stored once,
\* in the child that get_child selects for it and in no other, where get
\* finds it.
C25_SubdivideByQuadrant ==
    [][ ( /\ FullEvenLeaf(tree)
          /\ op'[1] = "set"
          /\ AABB_contains(tree.boundary, op'[2])
          /\ op'[2] \notin SlotPoints(tree) )
        => LET s == QTree_subdivide(tree)
           IN  /\ IsSome(tree'.children)
               /\ IsSome(s.children)
               /\ \A q \in SlotPoints(tree) :
                     /\ Count(s, q) = 1
                     /\ QTree_get(s, q)
                     /\ \A i \in 1..4 :
                           (q \in Enumerated(Unwrap(s.children)[i]))
                               <=> (i = get_child(tree.boundary, q) + 1) ]_vars

C25_Witness ==
    /\ op[1] = "set"
    /\ IsSome(tree.children)
    /\ tree.boundary = AABB_new(<<0, 0>>, 4)
    /\ calls = 5
    /\ Len(collect(into_iter(tree))) = 5

\* The number of items the iterator yields for the tree.
Stored(t) == Len(collect(into_iter(t)))

\* C26: the root changes shape in two ways only.  A set leaves an Internal
\* root Internal and a remove leaves a Leaf root a Leaf; a Leaf root becomes
\* Internal only in a set that found all 4 slots holding other points; an
\* Internal root becomes a Leaf only in a remove that leaves it with at most
\* 4 points, all the points but possibly the removed one.
C26_ShapeTransitions ==
    [][ /\ (IsSome(tree.children) /\ op'[1] = "set")
            => (IsSome(tree'.children) /\ ~IsSome(tree'.points))
        /\ (IsSome(tree.points) /\ op'[1] = "remove")
            => (IsSome(tree'.points) /\ ~IsSome(tree'.children))
        /\ (IsSome(tree.points) /\ IsSome(tree'.children))
            => /\ op'[1] = "set"
               /\ \A i \in 1..4 :
                     /\ IsSome(Unwrap(tree.points)[i])
                     /\ Unwrap(tree.points)[i] # Some(op'[2])
        /\ (IsSome(tree.children) /\ IsSome(tree'.points))
            => /\ op'[1] = "remove"
               /\ Stored(tree') <= QTREE_CAP
               /\ Stored(tree') \in { Stored(tree) - 1, Stored(tree) } ]_vars

\* The third call, remove((0, 0)), has left a Leaf root with 4 other points:
\* the tree held 5 points before it, so it was Internal and has collapsed.
C26_Witness ==
    /\ op = <<"remove", <<0, 0>> >>
    /\ calls = 3
    /\ IsSome(tree.points)
    /\ ~IsSome(tree.children)
    /\ Cardinality(SlotPoints(tree)) = 4
    /\ <<0, 0>> \notin SlotPoints(tree)

\* The occupied slots of a tree, depth first: the slots of a Leaf in slot
\* order, the children of an Internal node in the order NE, NW, SE, SW.
RECURSIVE Order(_)
Order(t) ==
    IF IsSome(t.points)
    THEN LET slot(i) == IF IsSome(Unwrap(t.points)[i])
                        THEN << Unwrap(Unwrap(t.points)[i]) >> ELSE <<>>
         IN  slot(1) \o slot(2) \o slot(3) \o slot(4)
    ELSE IF IsSome(t.children)
         THEN LET c == Unwrap(t.children)
              IN  Order(c[1]) \o Order(c[2]) \o Order(c[3]) \o Order(c[4])
         ELSE <<>>

\* C27: since the last into_iter, the i-th call of next has returned the
\* i-th occupied slot in depth-first order (NE, NW, SE, SW; slot order in a
\* Leaf; empty slots skipped), and None once there is no i-th one, however
\* often it is called after that.
C27_IterationOrder ==
    \A i \in 1..Len(yielded) :
        yielded[i] = IF i <= Len(Order(tree)) THEN Some(Order(tree)[i]) ELSE None

\* A walk of a tree with a second level and an emptied slot has yielded all
\* of its points and then None more than once.
C27_Witness ==
    /\ IsSome(tree.children)
    /\ \E i \in 1..4 : IsSome(Unwrap(tree.children)[i].children)
    /\ Len(Order(tree)) >= 5
    /\ Cardinality(expected) = Len(Order(tree))
    /\ Len(yielded) = Len(Order(tree)) + 2
    /\ <<-4, 1>> \notin expected
    /\ <<-1, 3>> \in expected

\* C28: every tree the Updater is about to send, the initial one and each
\* one build_next has returned, has the root boundary and the point set of
\* the initial tree.
C28_SameCells ==
    updater.pc = "send" =>
        LET current == heap[Unwrap(updater.current)].tree
        IN  /\ QTree_boundary(current) = QTree_boundary(tree)
            /\ Enumerated(current) = Enumerated(tree)

\* Every point in a slot of a Leaf lies inside that Leaf's boundary.
RECURSIVE LeafPointsInside(_)
LeafPointsInside(t) ==
    IF IsSome(t.points)
    THEN \A q \in SlotPoints(t) : AABB_contains(t.boundary, q)
    ELSE IsSome(t.children) =>
            \A i \in 1..4 : LeafPointsInside(Unwrap(t.children)[i])

\* The nodes of the tree before a call that are still there after it have
\* kept their boundaries.
RECURSIVE BoundariesKept(_, _)
BoundariesKept(old, new) ==
    /\ new.boundary = old.boundary
    /\ (IsSome(old.children) /\ IsSome(new.children)) =>
          \A i \in 1..4 : BoundariesKept(Unwrap(old.children)[i],
                                         Unwrap(new.children)[i])

\* C29: with an empty initial tree of power-of-two half-dimension and only
\* points inside its boundary, no call changes the root boundary or the
\* boundary of a node it found, every child has the boundary subdivide gave
\* it, and every stored point lies inside the boundary of its Leaf.
C29_NoExtensionInside ==
    [][ /\ BoundariesKept(tree, tree')
        /\ Tiled(tree')
        /\ LeafPointsInside(tree') ]_vars

=============================================================================
